---- MODULE Spec2Model ----
(***************************************************************************)
(* Model of ldm/invoke/model_cache.py (class ModelCache): the registry     *)
(* (self.config), the resident records (self.models), the recency queue    *)
(* (self.stack) and the active pointer (self.current_model), with one      *)
(* action per public operation.  Every operation is translated as a whole: *)
(* get_model includes its capacity step, the offload of the active model,  *)
(* the loader call, the restore path and the recency update.               *)
(***************************************************************************)
EXTENDS Integers, Sequences, FiniteSets, TLC

(* ---------------- bounds ---------------- *)
MaxBudget == 2          \* max_loaded_models ranges over Budgets
RecursionLimit == 1     \* nested get_model frames before RecursionError
MaxClock == 2           \* file modification times range over 0..MaxClock

(* ---------------- values ---------------- *)
Names == {"A", "B", "C"}
None == "None"
DEFAULT_MAX_MODELS == 2
Budgets == (1..MaxBudget) \cup {DEFAULT_MAX_MODELS}
\* the fast device the cache is constructed for; "cpu" is the holding area
device == "cuda"

\* attribute maps: entries of models.yaml and arguments of add_model
Ckpt(weights, size) ==
    [format |-> "ckpt", description |-> "d", weights |-> weights,
     height |-> size, width |-> size, config |-> "c1"]
Diffusers(path) ==
    [format |-> "diffusers", description |-> "d", path |-> path]
CkptAttrs == Ckpt("w1", 512)
AttrChoices == {CkptAttrs}
\* no attribute map (the value of last.attrs outside add_model)
NoAttrs == [none |-> TRUE]
\* attribute maps a caller may pass to add_model: complete ones, one carrying
\* a "default" field, and ones that lack a required field
WithDefault(attrs) ==
    [f \in (DOMAIN attrs) \cup {"default"} |->
        IF f = "default" THEN TRUE ELSE attrs[f]]
Without(attrs, field) == [f \in (DOMAIN attrs) \ {field} |-> attrs[f]]
DiffusersRepo(repo_id) ==
    [format |-> "diffusers", description |-> "d", repo_id |-> repo_id]
InvalidAttrChoices ==
    {Without(CkptAttrs, f) :
        f \in {"format", "description", "weights", "height", "width",
               "config"}}
    \cup {Without(DiffusersRepo("p2"), "description"),
          Without(Diffusers("p1"), "path")}
RegistryAttrChoices == AttrChoices \cup InvalidAttrChoices
DefaultAttrChoices == {CkptAttrs, WithDefault(CkptAttrs)}

\* the registry the cache is constructed with
InitConfig ==
    [n \in Names |->
        IF n = "A" THEN CkptAttrs
        ELSE IF n = "B" THEN Ckpt("w2", 768)
        ELSE Diffusers("p1")]

\* what one invocation of the loader (_load_model) meets: the number of
\* infected files the scanner reports for a checkpoint, the reply ask_user
\* returns if it is called, and whether the rest of the load succeeds
Env(infected, answer, load) ==
    [infected |-> infected, answer |-> answer, load |-> load]
NoAnswer == ""
LoaderOutcomes ==
    {Env(0, NoAnswer, "ok"), Env(0, NoAnswer, "fail"), Env(1, NoAnswer, "ok")}
\* every scan result, with every reply where the user is asked
ScanEnvs ==
    {Env(i, NoAnswer, l) : i \in {0, 1}, l \in {"ok", "fail"}}
    \cup {Env(2, a, l) : a \in {"y", "Y", "n"}, l \in {"ok", "fail"}}

\* outcomes of the successive loader invocations of one get_model call: the
\* loader is invoked again only after a failure, so the sequences that differ
\* in what the code does are failures, one other outcome, and padding
RECURSIVE AllFail(_)
AllFail(k) ==
    IF k = 0 THEN <<>> ELSE <<Env(0, NoAnswer, "fail")>> \o AllFail(k - 1)
OutcomeSeqs ==
    {AllFail(k) \o <<x>> \o AllFail(RecursionLimit - k) :
        k \in 0..RecursionLimit, x \in LoaderOutcomes}
ScanOutcomeSeqs ==
    {AllFail(k) \o <<x>> \o AllFail(RecursionLimit - k) :
        k \in 0..RecursionLimit, x \in ScanEnvs}

VARIABLES
    config,             \* self.config: name -> attribute map
    models,             \* self.models: name -> resident record
    stack,              \* self.stack: recency queue, oldest first
    current_model,      \* self.current_model, or None
    max_loaded_models,  \* self.max_loaded_models
    alive,              \* FALSE once sys.exit has ended the process
    watched,            \* history: a model evicted by _make_cache_room and
                        \* not requested since (one is followed at a time)
    last,               \* history: the most recent call and how it ended
    disk,               \* a weights file and its .sha256 sidecar
    now,                \* the clock that stamps file modifications
    probe,              \* history: the most recent call of a loader helper
    files,              \* the registry file and the temporary file of commit
    committing,         \* the position of a commit call in progress
    threads,            \* the position of each caller inside get_model
    locked              \* whether callers hold a mutex around get_model
vars == <<config, models, stack, current_model, max_loaded_models,
          alive, watched, last, disk, now, probe, files, committing,
          threads, locked>>
cache_vars == <<config, models, stack, current_model, max_loaded_models,
                alive, watched, last>>

(* ---------------- helpers ---------------- *)
Put(f, k, v) == [x \in (DOMAIN f) \cup {k} |-> IF x = k THEN v ELSE f[x]]
Drop(f, k) == [x \in (DOMAIN f) \ {k} |-> f[x]]
Remove(s, x) == SelectSeq(s, LAMBDA y : y # x)
SeqSet(s) == {s[i] : i \in 1..Len(s)}

\* the object the methods work on
Self ==
    [config |-> config, models |-> models, stack |-> stack,
     current_model |-> current_model,
     max_loaded_models |-> max_loaded_models]

\* values returned by get_model
RetNone == [kind |-> "none", name |-> None,
            width |-> 0, height |-> 0, hash |-> ""]
RetName(n) == [RetNone EXCEPT !.kind = "name", !.name = n]
RetRecord(r) == [kind |-> "record", name |-> None,
                 width |-> r.width, height |-> r.height, hash |-> r.hash]

\* variant: every name passes the registry check
valid_model_any(self, model_name) == model_name \in Names

valid_model(self, model_name) == model_name \in DOMAIN self.config

(* ---------------- device migration ---------------- *)
\* variant: the model object is left where it is
model_to_cpu_stay(rec) == rec

model_to_cpu(rec) ==
    IF device = "cpu" THEN rec ELSE [rec EXCEPT !.loc = "cpu"]

model_from_cpu(rec) ==
    IF device = "cpu" THEN rec ELSE [rec EXCEPT !.loc = device]

\* variant: the offloaded record is released
offload_model_release(self, model_name) ==
    IF model_name \notin DOMAIN self.models THEN self
    ELSE [self EXCEPT !.models = Drop(@, model_name)]

offload_model(self, model_name) ==
    IF model_name \notin DOMAIN self.models THEN self
    ELSE [self EXCEPT !.models[model_name] = model_to_cpu(@)]

(* ---------------- recency queue ---------------- *)
\* self.stack.pop(0): IndexError on an empty list
pop_oldest_model(self) ==
    IF self.stack = <<>>
    THEN [self |-> self, raised |-> "IndexError", popped |-> None]
    ELSE [self |-> [self EXCEPT !.stack = Tail(@)], raised |-> "none",
          popped |-> Head(self.stack)]

\* variant: the name is appended without removing its old position
push_newest_model_dup(self, model_name) ==
    [self EXCEPT !.stack = Append(@, model_name)]

push_newest_model(self, model_name) ==
    [self EXCEPT !.stack = Append(Remove(@, model_name), model_name)]

\* variant: room is made only once the budget is exceeded
make_cache_room_gt(self) ==
    IF Cardinality(DOMAIN self.models) > self.max_loaded_models
    THEN LET p == pop_oldest_model(self) IN
         IF p.raised # "none"
         THEN [self |-> p.self, raised |-> p.raised, evicted |-> <<>>]
         ELSE [self |-> [p.self EXCEPT !.models = Drop(@, p.popped)],
               raised |-> "none", evicted |-> <<p.popped>>]
    ELSE [self |-> self, raised |-> "none", evicted |-> <<>>]

\* variant: the victim leaves the queue but its record stays resident
make_cache_room_keep(self) ==
    IF Cardinality(DOMAIN self.models) >= self.max_loaded_models
    THEN LET p == pop_oldest_model(self) IN
         IF p.raised # "none"
         THEN [self |-> p.self, raised |-> p.raised, evicted |-> <<>>]
         ELSE [self |-> p.self, raised |-> "none", evicted |-> <<p.popped>>]
    ELSE [self |-> self, raised |-> "none", evicted |-> <<>>]

make_cache_room(self) ==
    IF Cardinality(DOMAIN self.models) >= self.max_loaded_models
    THEN LET p == pop_oldest_model(self) IN
         IF p.raised # "none"
         THEN [self |-> p.self, raised |-> p.raised, evicted |-> <<>>]
         ELSE IF p.popped \notin DOMAIN p.self.models
         THEN [self |-> p.self, raised |-> "KeyError", evicted |-> <<>>]
         ELSE [self |-> [p.self EXCEPT !.models = Drop(@, p.popped)],
               raised |-> "none", evicted |-> <<p.popped>>]
    ELSE [self |-> self, raised |-> "none", evicted |-> <<>>]

\* variant: the record is dropped and the name stays in the queue
invalidate_cached_model_queued(self, model_name) ==
    LET s1 == offload_model(self, model_name) IN
    [s1 EXCEPT !.models = Drop(@, model_name)]

invalidate_cached_model(self, model_name) ==
    LET s1 == offload_model(self, model_name) IN
    [s1 EXCEPT !.stack = Remove(@, model_name),
               !.models = Drop(@, model_name)]

(* ---------------- loader ---------------- *)
\* digest of the bytes of a weights file (the .sha256 sidecar is not modelled
\* here: every load hashes the bytes it read)
Sha256(weights) ==
    IF weights = "w1" THEN "h1" ELSE IF weights = "w2" THEN "h2" ELSE "h3"
\* unet sample_size * vae_scale_factor reported by the pipeline at a path
PipelineSize(path) == IF path = "p1" THEN 768 ELSE 512

(* ---------------- hash sidecar ---------------- *)
\* bytes a weights file may hold
Contents == {"w1", "w2"}
NoSidecar == [present |-> FALSE, text |-> "", mtime |-> 0]
Sidecar(text, mtime) == [present |-> TRUE, text |-> text, mtime |-> mtime]
Disk(data, mtime, sidecar) ==
    [data |-> data, mtime |-> mtime, sidecar |-> sidecar]

\* variant: the sidecar is trusted only when strictly newer than the weights
cached_sha256_strict(d, t) ==
    IF d.sidecar.present /\ d.mtime < d.sidecar.mtime
    THEN [disk |-> d, hash |-> d.sidecar.text, computed |-> FALSE]
    ELSE [disk |-> [d EXCEPT !.sidecar = Sidecar(Sha256(d.data), t)],
          hash |-> Sha256(d.data), computed |-> TRUE]

\* _cached_sha256(path, data) at time t, data being the bytes of the file
cached_sha256(d, t) ==
    IF d.sidecar.present /\ d.mtime <= d.sidecar.mtime
    THEN [disk |-> d, hash |-> d.sidecar.text, computed |-> FALSE]
    ELSE [disk |-> [d EXCEPT !.sidecar = Sidecar(Sha256(d.data), t)],
          hash |-> Sha256(d.data), computed |-> TRUE]

(* ---------------- diffusers loader ---------------- *)
\* self.precision
Precisions == {"float16", "float32"}
\* how one from_pretrained call ends: a pipeline, the OSError whose text starts
\* with 'fp16 is not a valid', another OSError, an exception of another class
FetchOutcomes == {"ok", "no_fp16_variant", "oserror", "error"}
FetchSeqs == [1..2 -> FetchOutcomes]

fp_args_list(precision) ==
    IF precision = "float16" THEN <<"fp16", "main">> ELSE <<"main">>

\* the for loop of _load_diffusers_model and the assertion after it
RECURSIVE fetch_loop(_, _, _)
fetch_loop(revisions, outs, attempts) ==
    IF revisions = <<>>
    THEN [raised |-> "AssertionError", attempts |-> attempts,
          revision |-> None]
    ELSE IF Head(outs) = "ok"
    THEN [raised |-> "none", attempts |-> attempts + 1,
          revision |-> Head(revisions)]
    ELSE IF Head(outs) \in {"no_fp16_variant", "oserror"}
    THEN fetch_loop(Tail(revisions), Tail(outs), attempts + 1)
    ELSE [raised |-> "Exception", attempts |-> attempts + 1,
          revision |-> None]

load_diffusers_model(precision, outs) ==
    fetch_loop(fp_args_list(precision), outs, 0)

(* ---------------- safety scan ---------------- *)
\* str.lower on the replies ask_user can return
Lower(answer) ==
    IF answer = "Y" THEN "y" ELSE IF answer = "N" THEN "n" ELSE answer

\* variant: an infected file is reported and the load goes on
scan_model_warn(infected, answer) == "ok"

\* scan_model: "exit" where the code calls sys.exit
scan_model(infected, answer) ==
    IF infected # 0
    THEN IF infected = 1
         THEN "exit"
         ELSE IF Lower(answer) # "y" THEN "exit" ELSE "ok"
    ELSE "ok"

\* a loader invocation that ended before any file was touched
NotLoaded ==
    [result |-> "fail", width |-> 0, height |-> 0, hash |-> "",
     infected |-> -1, answer |-> NoAnswer, read |-> FALSE]

\* _load_model: the record it builds, or the way it ends; infected is -1
\* where no scan is made, answer is the reply where ask_user was called, and
\* read tells whether the loader got to the lines that open the weights
load_model(self, model_name, env) ==
    IF model_name \notin DOMAIN self.config
    THEN NotLoaded
    ELSE LET mconfig == self.config[model_name]
             model_format == IF "format" \in DOMAIN mconfig
                             THEN mconfig.format ELSE "ckpt"
         IN
         IF model_format = "ckpt"
         THEN LET scan == scan_model(env.infected, env.answer) IN
              [result |-> IF scan = "exit" THEN "exit" ELSE env.load,
               width |-> mconfig.width, height |-> mconfig.height,
               hash |-> Sha256(mconfig.weights),
               infected |-> env.infected,
               answer |-> IF env.infected \in {0, 1}
                          THEN NoAnswer ELSE env.answer,
               read |-> (scan # "exit")]
         ELSE IF model_format = "diffusers"
         THEN IF {"path", "repo_id"} \cap DOMAIN mconfig # {}
              \* no safety scan on this path, hence no sys.exit
              THEN LET name_or_path == IF "path" \in DOMAIN mconfig
                                       THEN mconfig.path ELSE mconfig.repo_id
                   IN [result |-> env.load,
                       width |-> PipelineSize(name_or_path),
                       height |-> PipelineSize(name_or_path),
                       hash |-> "FIXME",
                       infected |-> -1, answer |-> NoAnswer, read |-> TRUE]
              ELSE NotLoaded
         ELSE NotLoaded

(* ---------------- get_model ---------------- *)
Result(self, ret, raised, loaded, evicted) ==
    [self |-> self, ret |-> ret, raised |-> raised,
     loaded |-> loaded, evicted |-> evicted]

\* one invocation of the loader: the name it was given and how it ended
Invoked(model_name, ld) ==
    [name |-> model_name, result |-> ld.result, infected |-> ld.infected,
     answer |-> ld.answer, read |-> ld.read]
LoadedNames(loaded) == {loaded[i].name : i \in 1..Len(loaded)}

\* lines 88-93 and 103-110: register the loaded record, make it current
RegisterLoaded(self, model_name, ld) ==
    LET rec == [loc |-> device,
                width |-> ld.width, height |-> ld.height, hash |-> ld.hash]
    IN push_newest_model(
         [self EXCEPT !.models = Put(@, model_name, rec),
                      !.current_model = model_name],
         model_name)

\* lines 77-83 and 103-110: promote the resident record, make it current
PromoteResident(self, model_name) ==
    push_newest_model(
      [self EXCEPT !.models[model_name] = model_from_cpu(@),
                   !.current_model = model_name],
      model_name)

\* outs: the outcome of each loader invocation, in order;
\* depth: number of get_model frames already on the stack
RECURSIVE get_model(_, _, _, _)
get_model(self, model_name, outs, depth) ==
    IF ~valid_model(self, model_name)
    THEN Result(self, RetName(self.current_model), "none", <<>>, <<>>)
    ELSE
    LET room == IF self.current_model # model_name
                   /\ model_name \notin DOMAIN self.models
                THEN make_cache_room(self)
                ELSE [self |-> self, raised |-> "none", evicted |-> <<>>]
    IN
    IF room.raised # "none"
    THEN Result(room.self, RetNone, room.raised, <<>>, room.evicted)
    ELSE
    LET s1 == IF self.current_model # model_name
              THEN offload_model(room.self, self.current_model)
              ELSE room.self
    IN
    IF model_name \in DOMAIN s1.models
    THEN LET s2 == PromoteResident(s1, model_name) IN
         Result(s2, RetRecord(s2.models[model_name]), "none", <<>>, room.evicted)
    ELSE
    LET ld == load_model(s1, model_name, Head(outs)) IN
    IF ld.result = "ok"
    THEN LET s2 == RegisterLoaded(s1, model_name, ld) IN
         Result(s2, RetRecord(s2.models[model_name]), "none",
                <<Invoked(model_name, ld)>>, room.evicted)
    ELSE IF ld.result = "exit"
    THEN Result(s1, RetNone, "SystemExit",
                <<Invoked(model_name, ld)>>, room.evicted)
    ELSE IF s1.current_model = None
    THEN Result(s1, RetNone, "AssertionError",
                <<Invoked(model_name, ld)>>, room.evicted)
    ELSE IF depth >= RecursionLimit
    THEN Result(s1, RetNone, "RecursionError",
                <<Invoked(model_name, ld)>>, room.evicted)
    ELSE LET r == get_model(s1, s1.current_model, Tail(outs), depth + 1) IN
         Result(r.self, RetNone, r.raised,
                <<Invoked(model_name, ld)>> \o r.loaded,
                room.evicted \o r.evicted)

(* ---------------- registry operations ---------------- *)
\* variant: the resident record is dropped with the registry entry
del_model_free(self, model_name) ==
    IF model_name \notin DOMAIN self.config
    THEN [self |-> self, raised |-> "KeyError"]
    ELSE [self |-> [invalidate_cached_model(self, model_name)
                       EXCEPT !.config = Drop(@, model_name)],
          raised |-> "none"]

\* del omega[model_name] raises on a missing key
del_model(self, model_name) ==
    IF model_name \notin DOMAIN self.config
    THEN [self |-> self, raised |-> "KeyError"]
    ELSE [self |-> [self EXCEPT !.config = Drop(@, model_name),
                                !.stack = Remove(@, model_name)],
          raised |-> "none"]

\* variant: only the "format" field is required
AttrsValid_format_only(attrs) == "format" \in DOMAIN attrs

AttrsValid(attrs) ==
    /\ "format" \in DOMAIN attrs
    /\ IF attrs.format = "diffusers"
       THEN /\ "description" \in DOMAIN attrs
            /\ ("path" \in DOMAIN attrs \/ "repo_id" \in DOMAIN attrs)
       ELSE {"description", "weights", "height", "width", "config"}
               \subseteq DOMAIN attrs

Merge(old, attrs) ==
    [f \in (DOMAIN old) \cup (DOMAIN attrs) |->
        IF f \in DOMAIN attrs THEN attrs[f] ELSE old[f]]

\* variant: the cached record is invalidated whether or not clobber is set
add_model_invalidate(self, model_name, model_attributes, clobber) ==
    IF ~AttrsValid(model_attributes)
       \/ ~(clobber \/ model_name \notin DOMAIN self.config)
    THEN [self |-> self, raised |-> "AssertionError"]
    ELSE LET cfg == IF model_name \in DOMAIN self.config
                    THEN Merge(self.config[model_name], model_attributes)
                    ELSE model_attributes
             s1 == [self EXCEPT !.config = Put(@, model_name, cfg)]
         IN [self |-> invalidate_cached_model(s1, model_name),
             raised |-> "none"]

add_model(self, model_name, model_attributes, clobber) ==
    IF ~AttrsValid(model_attributes)
       \/ ~(clobber \/ model_name \notin DOMAIN self.config)
    THEN [self |-> self, raised |-> "AssertionError"]
    ELSE LET cfg == IF model_name \in DOMAIN self.config
                    THEN Merge(self.config[model_name], model_attributes)
                    ELSE model_attributes
             s1 == [self EXCEPT !.config = Put(@, model_name, cfg)]
         IN [self |-> IF clobber THEN invalidate_cached_model(s1, model_name)
                      ELSE s1,
             raised |-> "none"]

\* default_model: the names whose entry carries a true "default" field (the
\* code returns the first of them in registry order)
Defaults(cfg) ==
    {n \in DOMAIN cfg : "default" \in DOMAIN cfg[n] /\ cfg[n]["default"]}

\* set_default_model: the assertion is on self.models; the "default" fields
\* are popped before config[model_name] is subscripted
set_default_model(self, model_name) ==
    IF model_name \notin DOMAIN self.models
    THEN [self |-> self, raised |-> "AssertionError"]
    ELSE LET popped == [n \in DOMAIN self.config |->
                           Without(self.config[n], "default")]
         IN IF model_name \notin DOMAIN popped
            THEN [self |-> [self EXCEPT !.config = popped],
                  raised |-> "KeyError"]
            ELSE [self |-> [self EXCEPT !.config =
                              [popped EXCEPT ![model_name] = WithDefault(@)]],
                  raised |-> "none"]

(* ---------------- the state machine ---------------- *)
NoCall == [op |-> "init", name |-> None, ret |-> RetNone, raised |-> "none",
           loaded |-> <<>>, evicted |-> <<>>, repeat |-> FALSE,
           reload |-> FALSE, attrs |-> NoAttrs, clobber |-> FALSE]

(* ---------------- commit ---------------- *)
\* OmegaConf.to_yaml(self.config): one chunk of text per entry, by name
NameOrder == <<"A", "B", "C">>
to_yaml(cfg) ==
    LET present == SelectSeq(NameOrder, LAMBDA n : n \in DOMAIN cfg) IN
    [i \in 1..Len(present) |->
        [name |-> present[i], attrs |-> cfg[present[i]]]]
\* self.preamble()
preamble == [name |-> "#", attrs |-> NoAttrs]
\* the document commit writes: the preamble, then the serialised entries
Document(cfg) == <<preamble>> \o to_yaml(cfg)

NoFile == [exists |-> FALSE, data |-> <<>>]
File(data) == [exists |-> TRUE, data |-> data]
config_file_path == "models.yaml"

\* variant: the document is written in place
tmpfile_in_place(path) == path

\* os.path.join(os.path.dirname(config_file_path), 'new_config.tmp')
tmpfile(path) == "new_config.tmp"

FileNames == {config_file_path, tmpfile(config_file_path)}
\* no commit made yet: the registry file is the document that was read
NotCommitting ==
    [pc |-> "idle", yaml_str |-> to_yaml(InitConfig),
     old |-> Document(InitConfig)]

NoProbe == [op |-> "init", hash |-> "", computed |-> FALSE, again |-> FALSE,
            precision |-> "", outs |-> <<>>, attempts |-> 0,
            raised |-> "none", revision |-> None]

Commit(s) ==
    /\ config' = s.config
    /\ models' = s.models
    /\ stack' = s.stack
    /\ current_model' = s.current_model
    /\ UNCHANGED <<max_loaded_models, disk, now, probe, files, committing,
                   threads, locked>>

InitCache ==
    /\ config = InitConfig
    /\ models = << >>
    /\ stack = << >>
    /\ current_model = None
    /\ max_loaded_models \in Budgets
    /\ alive = TRUE
    /\ watched = None
    /\ last = NoCall

\* callers of get_model
Threads == {1, 2}
Idle == [pc |-> "idle", name |-> None, switch |-> FALSE]

InitRegistryFile ==
    /\ files = [f \in FileNames |->
                  IF f = config_file_path
                  THEN File(Document(InitConfig)) ELSE NoFile]
    /\ committing = NotCommitting

\* the registry file is the one self.config was read from; no caller is
\* inside get_model
InitFiles ==
    /\ threads = [t \in Threads |-> Idle]
    /\ locked = TRUE
    /\ InitRegistryFile

Init ==
    /\ InitCache
    /\ disk = Disk("w1", 0, NoSidecar)
    /\ now = 0
    /\ probe = NoProbe
    /\ InitFiles

GetModel ==
    /\ alive
    /\ \E n \in Names, outs \in OutcomeSeqs :
         LET r == get_model(Self, n, outs, 0) IN
         /\ Commit(r.self)
         /\ alive' = (r.raised # "SystemExit")
         /\ watched' \in
              IF watched \in Names \ ({n} \cup LoadedNames(r.loaded))
              THEN {watched}
              ELSE {None} \cup (SeqSet(r.evicted) \ LoadedNames(r.loaded))
         /\ last' = [op |-> "get_model", name |-> n, ret |-> r.ret,
                     raised |-> r.raised, loaded |-> r.loaded,
                     evicted |-> r.evicted,
                     repeat |-> (last.op = "get_model" /\ last.name = n
                                 /\ last.ret.kind = "record"),
                     reload |-> (watched = n),
                     attrs |-> NoAttrs, clobber |-> FALSE]

DelModel ==
    /\ alive
    /\ \E n \in Names :
         LET r == del_model(Self, n) IN
         /\ Commit(r.self)
         /\ UNCHANGED <<alive, watched>>
         /\ last' = [NoCall EXCEPT !.op = "del_model", !.name = n,
                                   !.raised = r.raised]

AddModel ==
    /\ alive
    /\ \E n \in Names, a \in AttrChoices, clobber \in BOOLEAN :
         LET r == add_model(Self, n, a, clobber) IN
         /\ Commit(r.self)
         /\ UNCHANGED <<alive, watched>>
         /\ last' = [NoCall EXCEPT !.op = "add_model", !.name = n,
                                   !.raised = r.raised, !.attrs = a,
                                   !.clobber = clobber]

OffloadModel ==
    /\ alive
    /\ \E n \in Names \cup {None} :
         /\ Commit(offload_model(Self, n))
         /\ UNCHANGED <<alive, watched>>
         /\ last' = [NoCall EXCEPT !.op = "offload_model", !.name = n]

Next == GetModel \/ DelModel \/ AddModel \/ OffloadModel

Spec == Init /\ [][Next]_vars

(* ---------------- the loader helpers ---------------- *)
\* the weights file exists, with or without a sidecar left by an earlier run
InitLoaders ==
    /\ InitCache
    /\ now = 0
    /\ disk \in {Disk(data, 0, sc) :
                   data \in Contents,
                   sc \in {NoSidecar} \cup {Sidecar(Sha256(c), 0) : c \in Contents}}
    /\ probe = NoProbe
    /\ InitFiles

Tick ==
    /\ now < MaxClock
    /\ now' = now + 1
    /\ probe' = [NoProbe EXCEPT !.op = "tick"]
    /\ UNCHANGED disk
    /\ UNCHANGED <<cache_vars, files, committing, threads, locked>>

\* the weights file is replaced (download, conversion, merge)
WriteWeights ==
    /\ \E data \in Contents :
         disk' = [disk EXCEPT !.data = data, !.mtime = now]
    /\ probe' = [NoProbe EXCEPT !.op = "write_weights"]
    /\ UNCHANGED now
    /\ UNCHANGED <<cache_vars, files, committing, threads, locked>>

CachedSha256 ==
    /\ LET r == cached_sha256(disk, now) IN
         /\ disk' = r.disk
         /\ probe' = [NoProbe EXCEPT !.op = "cached_sha256",
                                     !.hash = r.hash,
                                     !.computed = r.computed,
                                     !.again = (probe.op = "cached_sha256")]
    /\ UNCHANGED now
    /\ UNCHANGED <<cache_vars, files, committing, threads, locked>>

LoadDiffusersModel ==
    /\ \E precision \in Precisions, outs \in FetchSeqs :
         LET r == load_diffusers_model(precision, outs) IN
         probe' = [NoProbe EXCEPT !.op = "load_diffusers_model",
                                  !.precision = precision,
                                  !.outs = outs,
                                  !.attempts = r.attempts,
                                  !.raised = r.raised,
                                  !.revision = r.revision]
    /\ UNCHANGED <<disk, now>>
    /\ UNCHANGED <<cache_vars, files, committing, threads, locked>>

NextLoaders == Tick \/ WriteWeights \/ CachedSha256 \/ LoadDiffusersModel

SpecLoaders == InitLoaders /\ [][NextLoaders]_vars

(* ---------------- the commit specification ---------------- *)
\* the registry changes only between commit calls
RegistryChange ==
    /\ committing.pc = "idle"
    /\ (AddModel \/ DelModel)

\* yaml_str = OmegaConf.to_yaml(self.config); open(tmpfile, 'w')
CommitOpen ==
    /\ alive /\ committing.pc = "idle"
    /\ committing' = [pc |-> "open", yaml_str |-> to_yaml(config),
                      old |-> files[config_file_path].data]
    /\ files' = [files EXCEPT ![tmpfile(config_file_path)] = File(<<>>)]
    /\ UNCHANGED <<cache_vars, disk, now, probe, threads, locked>>

\* outfile.write(self.preamble())
CommitWritePreamble ==
    /\ alive /\ committing.pc = "open"
    /\ committing' = [committing EXCEPT !.pc = "yaml"]
    /\ files' = [files EXCEPT ![tmpfile(config_file_path)].data =
                                  Append(@, preamble)]
    /\ UNCHANGED <<cache_vars, disk, now, probe, threads, locked>>

\* outfile.write(yaml_str): the text reaches the file a chunk at a time
CommitWriteYaml ==
    /\ alive /\ committing.pc = "yaml"
    /\ LET written == Len(files[tmpfile(config_file_path)].data) - 1 IN
       IF written < Len(committing.yaml_str)
       THEN /\ files' = [files EXCEPT ![tmpfile(config_file_path)].data =
                            Append(@, committing.yaml_str[written + 1])]
            /\ UNCHANGED committing
       ELSE /\ committing' = [committing EXCEPT !.pc = "closed"]
            /\ UNCHANGED files
    /\ UNCHANGED <<cache_vars, disk, now, probe, threads, locked>>

\* os.replace(tmpfile, config_file_path)
CommitReplace ==
    /\ alive /\ committing.pc = "closed"
    /\ LET tmp == tmpfile(config_file_path) IN
       files' = [f \in FileNames |->
                   IF f = config_file_path THEN files[tmp]
                   ELSE IF f = tmp THEN NoFile ELSE files[f]]
    /\ committing' = [committing EXCEPT !.pc = "idle"]
    /\ UNCHANGED <<cache_vars, disk, now, probe, threads, locked>>

\* the process dies, between any two steps
Crash ==
    /\ alive
    /\ alive' = FALSE
    /\ UNCHANGED <<config, models, stack, current_model, max_loaded_models,
                   watched, last, disk, now, probe, files, committing,
                   threads, locked>>

NextCommit ==
    \/ RegistryChange \/ CommitOpen \/ CommitWritePreamble
    \/ CommitWriteYaml \/ CommitReplace \/ Crash

SpecCommit == Init /\ [][NextCommit]_vars

(* ---------------- get_model statement by statement ---------------- *)
InitThreads ==
    /\ InitCache
    /\ disk = Disk("w1", 0, NoSidecar)
    /\ now = 0
    /\ probe = NoProbe
    /\ InitRegistryFile
    /\ threads = [t \in Threads |-> Idle]
    /\ locked \in BOOLEAN

\* the fields of the cache after a statement, the rest untouched
Step(s) ==
    /\ config' = s.config
    /\ models' = s.models
    /\ stack' = s.stack
    /\ current_model' = s.current_model
    /\ UNCHANGED <<max_loaded_models, alive, watched, last, disk, now, probe,
                   files, committing, locked>>

\* a caller enters get_model; with the mutex, only when no other is inside
Call(t) ==
    /\ threads[t].pc = "idle"
    /\ locked => \A u \in Threads : threads[u].pc = "idle"
    /\ \E n \in Names :
         /\ valid_model(Self, n)
         /\ threads' = [threads EXCEPT ![t] =
                           [pc |-> "room", name |-> n, switch |-> FALSE]]
    /\ Step(Self)

\* lines 72-74: the comparison with current_model and the capacity step
MakeRoom(t) ==
    /\ threads[t].pc = "room"
    /\ LET n == threads[t].name
           switch == current_model # n
           room == IF switch /\ n \notin DOMAIN models
                   THEN make_cache_room(Self)
                   ELSE [self |-> Self, raised |-> "none", evicted |-> <<>>]
       IN /\ Step(room.self)
          /\ threads' = [threads EXCEPT ![t] =
                            IF room.raised # "none" THEN Idle
                            ELSE [pc |-> "offload", name |-> n,
                                  switch |-> switch]]

\* line 75: offload of the model current_model names now
Offload(t) ==
    /\ threads[t].pc = "offload"
    /\ Step(IF threads[t].switch
            THEN offload_model(Self, current_model) ELSE Self)
    /\ threads' = [threads EXCEPT ![t].pc = "load"]

\* lines 77-101: the resident record goes to the device, or the loader runs
\* and its record is stored; a failed load runs the restore path
Load(t) ==
    /\ threads[t].pc = "load"
    /\ LET n == threads[t].name IN
       IF n \in DOMAIN models
       THEN /\ Step([Self EXCEPT !.models[n] = model_from_cpu(@)])
            /\ threads' = [threads EXCEPT ![t].pc = "finish"]
       ELSE \E env \in {Env(0, NoAnswer, "ok"), Env(0, NoAnswer, "fail")} :
              LET ld == load_model(Self, n, env) IN
              IF ld.result = "ok"
              THEN /\ Step([Self EXCEPT !.models =
                               Put(@, n, [loc |-> device, width |-> ld.width,
                                          height |-> ld.height,
                                          hash |-> ld.hash])])
                   /\ threads' = [threads EXCEPT ![t].pc = "finish"]
              ELSE /\ Step(IF current_model = None THEN Self
                           ELSE get_model(Self, current_model, <<env>>,
                                          RecursionLimit).self)
                   /\ threads' = [threads EXCEPT ![t] = Idle]

\* lines 103-104: the active pointer and the recency update
Finish(t) ==
    /\ threads[t].pc = "finish"
    /\ Step(push_newest_model(
              [Self EXCEPT !.current_model = threads[t].name],
              threads[t].name))
    /\ threads' = [threads EXCEPT ![t] = Idle]

NextThreads ==
    \E t \in Threads :
        Call(t) \/ MakeRoom(t) \/ Offload(t) \/ Load(t) \/ Finish(t)

SpecThreads == InitThreads /\ [][NextThreads]_vars

(* ---------------- the scan specification ---------------- *)
\* get_model as in Spec, the loader meeting every scan result and reply
GetModelScan ==
    /\ alive
    /\ \E n \in Names, outs \in ScanOutcomeSeqs :
         LET r == get_model(Self, n, outs, 0) IN
         /\ Commit(r.self)
         /\ alive' = (r.raised # "SystemExit")
         /\ UNCHANGED watched
         /\ last' = [NoCall EXCEPT !.op = "get_model", !.name = n,
                                   !.ret = r.ret, !.raised = r.raised,
                                   !.loaded = r.loaded,
                                   !.evicted = r.evicted]

NextScan == GetModelScan \/ DelModel \/ AddModel \/ OffloadModel

SpecScan == Init /\ [][NextScan]_vars

(* ---------------- the registry specification ---------------- *)
\* get_model as in Spec, with a history that keeps only how the call ended
GetModelCall ==
    /\ alive
    /\ \E n \in Names, outs \in OutcomeSeqs :
         LET r == get_model(Self, n, outs, 0) IN
         /\ Commit(r.self)
         /\ alive' = (r.raised # "SystemExit")
         /\ UNCHANGED watched
         /\ last' = [NoCall EXCEPT !.op = "get_model", !.name = n,
                                   !.raised = r.raised]

\* add_model with complete and with incomplete attribute maps
AddModelAny ==
    /\ alive
    /\ \E n \in Names, a \in RegistryAttrChoices, clobber \in BOOLEAN :
         LET r == add_model(Self, n, a, clobber) IN
         /\ Commit(r.self)
         /\ UNCHANGED <<alive, watched>>
         /\ last' = [NoCall EXCEPT !.op = "add_model", !.name = n,
                                   !.raised = r.raised, !.attrs = a,
                                   !.clobber = clobber]

\* add_model with attribute maps that may carry a "default" field
AddModelDefault ==
    /\ alive
    /\ \E n \in Names, a \in DefaultAttrChoices, clobber \in BOOLEAN :
         LET r == add_model(Self, n, a, clobber) IN
         /\ Commit(r.self)
         /\ UNCHANGED <<alive, watched>>
         /\ last' = [NoCall EXCEPT !.op = "add_model", !.name = n,
                                   !.raised = r.raised, !.attrs = a,
                                   !.clobber = clobber]

SetDefaultModel ==
    /\ alive
    /\ \E n \in Names :
         LET r == set_default_model(Self, n) IN
         /\ Commit(r.self)
         /\ UNCHANGED <<alive, watched>>
         /\ last' = [NoCall EXCEPT !.op = "set_default_model", !.name = n,
                                   !.raised = r.raised]

NextRegistry == GetModelCall \/ DelModel \/ AddModelAny

SpecRegistry == Init /\ [][NextRegistry]_vars

NextDefault == GetModelCall \/ DelModel \/ AddModelDefault \/ SetDefaultModel

SpecDefault == Init /\ [][NextDefault]_vars

(* ======================= properties ======================= *)
Resident == DOMAIN models
OnFastDevice(n) == n \in Resident /\ models[n].loc # "cpu"
IsGet(l) == l.op = "get_model"
\* the loader was invoked for the requested name and ended in the given way
FirstLoad(l, result) ==
    /\ l.loaded # <<>>
    /\ l.loaded[1].name = l.name
    /\ l.loaded[1].result = result

\* C1: the number of resident records never exceeds max_loaded_models,
\* whatever get_model, add_model, del_model and offload_model calls were made.
C1_SlotBudget == Cardinality(Resident) <= max_loaded_models

\* a get_model that evicted a victim and left the cache full, with budget >= 2
C1_Witness ==
    /\ IsGet(last) /\ last.evicted # <<>> /\ last.ret.kind = "record"
    /\ max_loaded_models >= 2
    /\ Cardinality(Resident) = max_loaded_models

\* C2: the model _make_cache_room removes during get_model is never the
\* model current_model names when get_model is called.
C2_ActiveNeverEvicted ==
    [][IsGet(last') => current_model \notin SeqSet(last'.evicted)]_vars

\* C3: at most one resident model is on the fast device, and it is the one
\* current_model names.
C3_AtMostOneActive ==
    \A n \in Resident : OnFastDevice(n) => n = current_model

\* get_model made one model active while another stays resident off the device
C3_Witness ==
    /\ IsGet(last) /\ last.ret.kind = "record"
    /\ OnFastDevice(current_model)
    /\ \E m \in Resident \ {current_model} : ~OnFastDevice(m)

\* C4: get_model for a registered, non-resident name with the resident count
\* at or above the budget evicts exactly one model, the head of the queue.
C4_LruVictim ==
    [][(/\ IsGet(last')
        /\ last'.name \in DOMAIN config
        /\ last'.name \notin Resident
        /\ Cardinality(Resident) >= max_loaded_models)
       => (stack # <<>> /\ last'.evicted = <<Head(stack)>>)]_vars

\* C5: when the loader raises for n while P is active, get_model does not
\* raise, current_model is still P, P is resident on the fast device, and n
\* is neither resident nor queued.
C5_LoadFailureRecovery ==
    [][(/\ IsGet(last')
        /\ OnFastDevice(current_model)
        /\ FirstLoad(last', "fail"))
       => (/\ last'.raised = "none"
           /\ current_model' = current_model
           /\ current_model \in DOMAIN models'
           /\ models'[current_model].loc # "cpu"
           /\ last'.name \notin DOMAIN models'
           /\ last'.name \notin SeqSet(stack'))]_vars

\* C6: a load failure in get_model ends in the assertion abort exactly when
\* current_model is None; with a current model it raises nothing.
C6_FatalOnlyWithoutFallback ==
    [][(IsGet(last') /\ FirstLoad(last', "fail"))
       => (/\ (last'.raised = "AssertionError") <=> (current_model = None)
           /\ (current_model # None => last'.raised = "none"))]_vars

\* C7: get_model of a name that is not in the registry raises nothing and
\* leaves registry, resident records (devices included), queue and
\* current_model as they were.
C7_UnknownNameNoEffect ==
    [][(IsGet(last') /\ last'.name \notin DOMAIN config)
       => (/\ UNCHANGED <<config, models, stack, current_model>>
           /\ last'.raised = "none"
           /\ last'.evicted = <<>>
           /\ last'.loaded = <<>>)]_vars

\* an unknown name was requested while the cache was full and a model active
C7_Witness ==
    /\ IsGet(last) /\ last.name \notin DOMAIN config
    /\ OnFastDevice(current_model)
    /\ Cardinality(Resident) = max_loaded_models

\* C8: get_model of a name that is not in the registry returns the record
\* (model, width, height, hash) of the active model.
C8_UnknownNameReturnsRecord ==
    (IsGet(last) /\ last.name \notin DOMAIN config /\ current_model \in Resident)
       => last.ret = RetRecord(models[current_model])

\* C9: a get_model(n) directly after a successful get_model(n) evicts
\* nothing, does not invoke the loader, changes neither the resident records
\* nor the queue nor current_model, and returns the same width, height, hash.
C9_RepeatIsNoOp ==
    [][(/\ IsGet(last) /\ last.ret.kind = "record"
        /\ IsGet(last') /\ last'.name = last.name)
       => (/\ UNCHANGED <<config, models, stack, current_model>>
           /\ last'.evicted = <<>>
           /\ last'.loaded = <<>>
           /\ last'.raised = "none"
           /\ last'.ret = last.ret)]_vars

\* the second of two get_model calls for the same name has returned
C9_Witness ==
    /\ IsGet(last) /\ last.repeat /\ last.ret.kind = "record"
    /\ Cardinality(Resident) >= 2

C11_MarkUsedThenPop ==
    \A x \in Resident :
        pop_oldest_model(push_newest_model(Self, x)).popped = x
            => Resident = {x}

\* C12: the names in the recency queue are exactly the resident models, and
\* the queue holds no name twice.
C12_QueueMirrorsResidency ==
    /\ SeqSet(stack) = Resident
    /\ Cardinality(SeqSet(stack)) = Len(stack)

\* C13: every key of self.models is a name in the registry.
C13_ResidentIsRegistered == Resident \subseteq DOMAIN config

\* C14: add_model raises an assertion failure when the attributes lack
\* "format", when a diffusers entry lacks "description" or lacks both "path"
\* and "repo_id", when another entry lacks any of description, weights,
\* height, width, config, or when the name exists and clobber is false; the
\* registry, the resident map, the queue and current_model are then unchanged.
C14_AddModelRejects ==
    [][(/\ last'.op = "add_model"
        /\ LET a == last'.attrs IN
           \/ "format" \notin DOMAIN a
           \/ /\ "format" \in DOMAIN a
              /\ a.format = "diffusers"
              /\ \/ "description" \notin DOMAIN a
                 \/ {"path", "repo_id"} \cap DOMAIN a = {}
           \/ /\ "format" \in DOMAIN a
              /\ a.format # "diffusers"
              /\ \E f \in {"description", "weights", "height", "width",
                            "config"} : f \notin DOMAIN a
           \/ (last'.name \in DOMAIN config /\ ~last'.clobber))
       => (/\ last'.raised = "AssertionError"
           /\ UNCHANGED <<config, models, stack, current_model>>)]_vars

\* add_model with clobber was refused a diffusers map without "description"
\* while models are resident
C14_Witness ==
    /\ last.op = "add_model" /\ last.raised = "AssertionError"
    /\ last.clobber
    /\ "format" \in DOMAIN last.attrs /\ last.attrs.format = "diffusers"
    /\ "description" \notin DOMAIN last.attrs
    /\ Resident # {}

\* C15: after add_model(name, attrs, clobber=True) on an existing name, name
\* is in neither the resident map nor the queue, and the next get_model(name)
\* invokes the loader for name and serves the record built from the new
\* attributes.
C15_ClobberInvalidates ==
    [][/\ (/\ last'.op = "add_model" /\ last'.clobber
           /\ last'.raised = "none" /\ last'.name \in DOMAIN config)
          => (/\ last'.name \notin DOMAIN models'
              /\ last'.name \notin SeqSet(stack'))
       /\ (/\ last.op = "add_model" /\ last.clobber
           /\ last.raised = "none"
           /\ IsGet(last') /\ last'.name = last.name)
          => (/\ last'.loaded # <<>>
              /\ last'.loaded[1].name = last.name
              /\ (last'.loaded[1].result = "ok"
                    => (/\ last'.ret.kind = "record"
                        /\ last'.ret.width = last.attrs.width
                        /\ last'.ret.height = last.attrs.height
                        /\ last'.ret.hash = Sha256(last.attrs.weights))))]_vars

\* C16: del_model(name) on a registered name removes name from the registry
\* and from the queue, and leaves the resident map (the record of name and
\* every device location included) and current_model unchanged, also when
\* name is the active model.
C16_DelModelFrame ==
    [][(last'.op = "del_model" /\ last'.name \in DOMAIN config)
       => (/\ last'.raised = "none"
           /\ DOMAIN config' = DOMAIN config \ {last'.name}
           /\ \A n \in DOMAIN config' : config'[n] = config[n]
           /\ stack' = Remove(stack, last'.name)
           /\ models' = models
           /\ current_model' = current_model)]_vars

\* del_model removed the active model, which stays resident on the device
C16_Witness ==
    /\ last.op = "del_model" /\ last.raised = "none"
    /\ last.name = current_model
    /\ last.name \in Resident /\ OnFastDevice(last.name)
    /\ last.name \notin DOMAIN config
    /\ Cardinality(Resident) >= 2

\* C17: at most one registry entry has its "default" flag true, whatever
\* add_model, set_default_model and del_model calls were made.
C17_UniqueDefault == Cardinality(Defaults(config)) <= 1

C18_HashCacheAside ==
    [][probe'.op = "cached_sha256"
       => LET valid == disk.sidecar.present
                       /\ disk.sidecar.mtime >= disk.mtime
          IN
          /\ valid => (/\ ~probe'.computed
                       /\ probe'.hash = disk.sidecar.text
                       /\ disk' = disk)
          /\ ~valid => (/\ probe'.computed
                        /\ probe'.hash = Sha256(disk.data)
                        /\ disk'.sidecar.present
                        /\ disk'.sidecar.text = Sha256(disk.data)
                        /\ disk'.data = disk.data
                        /\ disk'.mtime = disk.mtime)
          /\ probe.op = "cached_sha256"
               => (probe'.hash = probe.hash /\ ~probe'.computed)]_vars

\* the file was hashed, then hashed again: the first call computed the digest
\* of a file newer than its sidecar, the second read it back
C18_Witness ==
    /\ probe.op = "cached_sha256" /\ probe.again /\ ~probe.computed
    /\ probe.hash = Sha256(disk.data)
    /\ disk.mtime > 0
    /\ disk.sidecar.mtime >= disk.mtime

\* C19: with reduced precision requested the diffusers loader makes at most
\* two fetch attempts and makes the second only when the first failed with the
\* "fp16 is not a valid" signature; any other failure of the first fetch is
\* raised without a further attempt; with full precision there is exactly one
\* attempt.
C19_PrecisionFallback ==
    probe.op = "load_diffusers_model"
       => /\ probe.attempts <= 2
          /\ probe.precision = "float16"
               => /\ probe.attempts = 2 => probe.outs[1] = "no_fp16_variant"
                  /\ probe.outs[1] \in {"oserror", "error"}
                       => (probe.attempts = 1 /\ probe.raised # "none")
          /\ probe.precision # "float16" => probe.attempts = 1

\* C23: from every reachable state, get_model(n) for a registered n whose
\* loader succeeds completes without raising, with current_model = n, n
\* resident on the fast device and n at the tail of the queue.
C23_SuccessPostcondition ==
    [][(/\ IsGet(last')
        /\ last'.name \in DOMAIN config
        /\ \A i \in 1..Len(last'.loaded) : last'.loaded[i].result = "ok")
       => (/\ last'.raised = "none"
           /\ current_model' = last'.name
           /\ last'.name \in DOMAIN models'
           /\ models'[last'.name].loc = device
           /\ stack' # <<>>
           /\ stack'[Len(stack')] = last'.name)]_vars

C25_RestoreNotReentered ==
    [][IsGet(last')
       => (/\ Len(last'.loaded) <= 2
           /\ Len(last'.loaded) = 2 => last'.loaded[2].result # "fail"
           /\ last'.raised # "RecursionError")]_vars

\* C26: the queue holds no name twice, every name in it is a key of
\* self.models, and current_model, when in the queue, is its last element.
C26_QueueWellFormed ==
    /\ Cardinality(SeqSet(stack)) = Len(stack)
    /\ SeqSet(stack) \subseteq Resident
    /\ make_cache_room(Self).raised # "KeyError"
    /\ current_model \in SeqSet(stack) => stack[Len(stack)] = current_model

\* add_model with clobber ran its invalidation while two other models, the
\* active one last, stay queued
C26_Witness ==
    /\ last.op = "add_model" /\ last.clobber /\ last.raised = "none"
    /\ Len(stack) = 2
    /\ current_model = stack[2]
    /\ last.name \notin SeqSet(stack)

\* C27: when n is resident, removed with del_model and registered again by
\* add_model without clobber, the old record stays, and the next get_model(n)
\* invokes no loader and returns that record.
C27_StaleAfterReAdd ==
    [][/\ (/\ last'.op = "add_model" /\ ~last'.clobber
           /\ last'.raised = "none" /\ last'.name \in Resident)
          => (/\ last'.name \in DOMAIN models'
              /\ models'[last'.name] = models[last'.name])
       /\ (/\ IsGet(last')
           /\ last'.name \in DOMAIN config
           /\ last'.name \in Resident)
          => (/\ last'.loaded = <<>>
              /\ last'.raised = "none"
              /\ last'.ret = RetRecord(models[last'.name]))]_vars

\* get_model served a record whose size is not the one now registered
C27_Witness ==
    /\ IsGet(last) /\ last.loaded = <<>> /\ last.ret.kind = "record"
    /\ last.name \in DOMAIN config
    /\ "width" \in DOMAIN config[last.name]
    /\ last.ret.width # config[last.name].width

\* C28: when get_model(n) for a registered, non-resident n finds the resident
\* count at the budget and the loader fails, the head of the queue has been
\* evicted and is not restored: the resident set is the previous set minus
\* that victim, and current_model is unchanged.
C28_FailedLoadCostsEviction ==
    [][(/\ IsGet(last')
        /\ last'.name \in DOMAIN config
        /\ last'.name \notin Resident
        /\ Cardinality(Resident) >= max_loaded_models
        /\ FirstLoad(last', "fail"))
       => (/\ stack # <<>>
           /\ last'.evicted = <<Head(stack)>>
           /\ DOMAIN models' = Resident \ {Head(stack)}
           /\ Head(stack) \in Resident
           /\ current_model' = current_model)]_vars

\* C21: at every point of commit(path), a crash between two steps included,
\* the file at path holds the complete document committed before or the
\* complete new document; the new document is first written in full to the
\* temporary file and reaches path only through the rename.
C21_AtomicCommit ==
    [][/\ files'[config_file_path].exists
       /\ files'[config_file_path].data
             \in {committing'.old, <<preamble>> \o committing'.yaml_str}
       /\ files'[config_file_path] # files[config_file_path]
            => (/\ committing.pc = "closed"
                /\ committing.yaml_str = to_yaml(config)
                /\ files[tmpfile(config_file_path)].data
                     = Document(config)
                /\ files'[config_file_path].data = Document(config))]_vars

\* the process died while the new document was half written to the temporary
\* file: the registry file still holds the old document
C21_Witness ==
    /\ ~alive /\ committing.pc = "yaml"
    /\ Len(files[tmpfile(config_file_path)].data) = 2
    /\ Len(committing.yaml_str) >= 2
    /\ files[config_file_path].data = committing.old
    /\ committing.old # Document(config)

\* C22: when every get_model runs to completion before the next one starts
\* and the budget is at least 2, the resident count stays within the budget,
\* at most one model is on the device, and between calls it is the one
\* current_model names; with the statements of two callers interleaved a
\* state breaking these is reachable.
C22_SafeUnderMutex ==
    (locked /\ max_loaded_models >= 2)
       => (/\ Cardinality(Resident) <= max_loaded_models
           /\ Cardinality({n \in Resident : OnFastDevice(n)}) <= 1
           /\ (\A t \in Threads : threads[t].pc = "idle")
                => \A n \in Resident : OnFastDevice(n) => n = current_model)

\* without the mutex two callers left the cache over its budget, with two
\* models on the device
C22_Witness ==
    /\ ~locked /\ max_loaded_models >= 2
    /\ \A t \in Threads : threads[t].pc = "idle"
    /\ Cardinality(Resident) > max_loaded_models
    /\ Cardinality({n \in Resident : OnFastDevice(n)}) >= 2

====
